---- MODULE Spec2Model ----
(***************************************************************************)
(* Task Manager API: the service layer (UserService, TaskService) over the *)
(* repositories (UserRepository, TaskRepository) and the two tables they   *)
(* read and write.  Every request runs in its own database session; a      *)
(* request is a sequence of database round trips and two requests may      *)
(* interleave between any two of them.  The owner-scoped read made by the  *)
(* service and the id-only read-modify-commit made by the repository are   *)
(* separate round trips.                                                    *)
(***************************************************************************)
EXTENDS Integers, FiniteSets, Sequences, TLC

(***************************************************************************)
(* Bounds of the model.                                                    *)
(***************************************************************************)
MaxTasks == 2
MaxUsers == 2
MaxRaceTasks == 1
MaxClock == 32

(***************************************************************************)
(* Program constants.                                                      *)
(***************************************************************************)
USERNAME_MIN == 3
USERNAME_MAX == 50
PASSWORD_MIN == 8
TITLE_MAX == 255
DESCRIPTION_MAX == 2000
ACCESS_TOKEN_EXPIRE_MINUTES == 30
SECRET_KEY == "your-secret-key-change-in-production"

Procs == {"r1", "r2"}

(***************************************************************************)
(* Python values.  None is a value of its own.  A str is kept as its runs: *)
(* `lead' blanks, `body' copies of the character `ch', `trail' blanks, so  *)
(* that len() and str.strip() are computed and not assumed.                *)
(***************************************************************************)
None == [none |-> TRUE]

Str(l, c, b, t) == [lead |-> l, ch |-> c, body |-> b, trail |-> t]

EmptyStr == Str(0, "a", 0, 0)

len(s) == s.lead + s.body + s.trail

strip(s) == IF s.body = 0 THEN EmptyStr ELSE Str(0, s.ch, s.body, 0)

\* Python truthiness of an Optional[str]: None and "" are falsy.
truthy(s) == s /= None /\ len(s) > 0

BoolV(b) == [bool |-> b]

IntV(i) == [int |-> i]

(***************************************************************************)
(* Results of a call: a returned value or a raised exception.              *)
(***************************************************************************)
Return(v) == [tag |-> "return", val |-> v]

Raise(e, m) == [tag |-> "raise", exc |-> e, msg |-> m]

NoResult == [tag |-> "pending"]

NoRequest == [op |-> "idle"]

(***************************************************************************)
(* The database: table users (id -> row) and table tasks (id -> row).      *)
(* creator records, for each task row, the user_id argument of the         *)
(* create_task call that inserted it (a history of the calls, not a        *)
(* column).  Per request: pc is the position of the request, req its       *)
(* arguments, obj the Task object the session loaded in the service's      *)
(* owner-scoped read, res its outcome.  tokens is the set of tokens that   *)
(* login has handed out and clients hold: each with the clock reading at   *)
(* its issuance, the id of the user it was issued to and whether that user *)
(* has been deleted since (a history; the server keeps no token).          *)
(***************************************************************************)
VARIABLES users, tasks, creator, pc, req, obj, res, tokens

vars == <<users, tasks, creator, pc, req, obj, res, tokens>>

Max(S) == CHOOSE m \in S : \A x \in S : x <= m

Min(S) == CHOOSE m \in S : \A x \in S : m <= x

\* The id the database gives a new row of a table with an integer primary
\* key: one more than the largest id in the table (SQLite rowid).
NextId(table) == IF DOMAIN table = {} THEN 1 ELSE Max(DOMAIN table) + 1

Put(table, id, row) == [i \in DOMAIN table \cup {id} |-> IF i = id THEN row ELSE table[i]]

Drop(table, id) == [i \in DOMAIN table \ {id} |-> table[i]]

(***************************************************************************)
(* core.security: password hashing.  The digest is opaque and is never the *)
(* plaintext; verify accepts exactly the plaintext that was hashed.        *)
(***************************************************************************)
get_password_hash(password) == [bcrypt |-> password]

verify_password(password, hashed) == hashed = [bcrypt |-> password]

(***************************************************************************)
(* core.security: bearer tokens.  Time is the reading of the server clock,  *)
(* in minutes.  A token carries its subject, its expiry = the clock at      *)
(* issuance + the time to live, and a signature over both under a key; the  *)
(* signature is opaque and can be made only with the key.                   *)
(***************************************************************************)
Sign(key, sub, exp) == [key |-> key, sub |-> sub, exp |-> exp]

create_access_token(username, minutes, now) ==
    [sub |-> username, exp |-> now + minutes,
     sig |-> Sign(SECRET_KEY, username, now + minutes)]

\* verify_token that takes the expiry itself as expired.
verify_token_ExpiredAtExpiry(token, now) ==
    IF token.sig /= Sign(SECRET_KEY, token.sub, token.exp)
    THEN Raise("InvalidToken", "signature")
    ELSE IF now >= token.exp THEN Raise("ExpiredToken", "expired")
    ELSE Return(token.sub)

\* InvalidToken if the signature does not match, ExpiredToken if now > expiry,
\* the subject otherwise.
verify_token(token, now) ==
    IF token.sig /= Sign(SECRET_KEY, token.sub, token.exp)
    THEN Raise("InvalidToken", "signature")
    ELSE IF now > token.exp THEN Raise("ExpiredToken", "expired")
    ELSE Return(token.sub)

(***************************************************************************)
(* UserRepository                                                          *)
(***************************************************************************)
UserRepository_get_by_username(U, username) ==
    LET hits == {i \in DOMAIN U : U[i].username = username}
    IN  IF hits = {} THEN None ELSE U[Min(hits)]

\* The users table has a unique index on username: the INSERT of a second
\* row with the same username fails.
UniqueUsername(U, username) == \A i \in DOMAIN U : U[i].username /= username

\* UserRepository.create that answers a duplicate with the row already there.
UserRepository_create_Upsert(U, user) ==
    IF UniqueUsername(U, user.username)
    THEN LET id  == NextId(U)
             row == [id |-> id, username |-> user.username,
                     hashed_password |-> user.hashed_password]
         IN  [users |-> Put(U, id, row), res |-> Return(row)]
    ELSE [users |-> U, res |-> Return(UserRepository_get_by_username(U, user.username))]

UserRepository_create(U, user) ==
    IF UniqueUsername(U, user.username)
    THEN LET id  == NextId(U)
             row == [id |-> id, username |-> user.username,
                     hashed_password |-> user.hashed_password]
         IN  [users |-> Put(U, id, row), res |-> Return(row)]
    ELSE [users |-> U, res |-> Raise("IntegrityError", "UNIQUE constraint failed")]

\* The tasks table after the DELETE of the users row user_id: the Task model
\* declares no cascade, so the rows of the user's tasks stay as they are.
OnUserDelete(T, user_id) == T

UserRepository_delete(U, T, user_id) ==
    IF user_id \notin DOMAIN U
    THEN [users |-> U, tasks |-> T, res |-> Return(BoolV(FALSE))]
    ELSE [users |-> Drop(U, user_id), tasks |-> OnUserDelete(T, user_id),
          res |-> Return(BoolV(TRUE))]

(***************************************************************************)
(* core.security: the identity of a request.  The bearer token is None     *)
(* when the request carries none.  Every failure is the same 401.          *)
(***************************************************************************)
Unauthenticated == Raise("HTTPException", "401 Could not validate credentials")

\* get_current_user that takes the subject of a verified token on trust.
get_current_user_NoLookup(U, token, now) ==
    IF token = None THEN Unauthenticated
    ELSE LET subject == verify_token(token, now)
         IN  IF subject.tag = "raise" THEN Unauthenticated
             ELSE Return([id |-> 0, username |-> subject.val,
                          hashed_password |-> None])

get_current_user(U, token, now) ==
    IF token = None THEN Unauthenticated
    ELSE LET subject == verify_token(token, now)
         IN  IF subject.tag = "raise" THEN Unauthenticated
             ELSE LET user == UserRepository_get_by_username(U, subject.val)
                  IN  IF user = None THEN Unauthenticated ELSE Return(user)

(***************************************************************************)
(* TaskRepository                                                          *)
(***************************************************************************)
\* The lookup without the owner filter (TaskRepository.get_by_id).
TaskRepository_get_by_id_only(T, task_id, user_id) ==
    IF task_id \in DOMAIN T THEN T[task_id] ELSE None

TaskRepository_get_by_user_and_id(T, task_id, user_id) ==
    IF task_id \in DOMAIN T /\ T[task_id].owner_id = user_id
    THEN T[task_id] ELSE None

TaskRepository_create(T, task) ==
    LET id  == NextId(T)
        row == [id |-> id, title |-> task.title, description |-> task.description,
                completed |-> task.completed, owner_id |-> task.owner_id]
    IN  [tasks |-> Put(T, id, row), res |-> Return(row)]

\* The column value a keyword argument carries.
Unwrap(key, value) ==
    CASE key = "completed" -> value.bool
      [] key = "owner_id"  -> value.int
      [] OTHER             -> value

\* TaskRepository.update whose UPDATE has no WHERE clause.
TaskRepository_update_EveryRow(T, task_id, kwargs, o) ==
    IF task_id \notin DOMAIN T THEN [tasks |-> T, res |-> Return(None)]
    ELSE LET set(k) == k \in DOMAIN kwargs /\ kwargs[k] /= None
             row(i) == [k \in DOMAIN T[i] |->
                          IF set(k) THEN Unwrap(k, kwargs[k]) ELSE T[i][k]]
         IN  [tasks |-> [i \in DOMAIN T |-> row(i)], res |-> Return(row(task_id))]

\* setattr over the keyword arguments on the session's object o, then the
\* flush: the UPDATE carries the attributes whose value differs from the one
\* the session loaded and addresses the row by id alone; refresh re-reads.
TaskRepository_update(T, task_id, kwargs, o) ==
    IF task_id \notin DOMAIN T THEN [tasks |-> T, res |-> Return(None)]
    ELSE LET set(k) == /\ k \in DOMAIN kwargs
                       /\ kwargs[k] /= None
                       /\ Unwrap(k, kwargs[k]) /= o[k]
             row == [k \in DOMAIN T[task_id] |->
                        IF set(k) THEN Unwrap(k, kwargs[k]) ELSE T[task_id][k]]
         IN  [tasks |-> Put(T, task_id, row), res |-> Return(row)]

\* TaskRepository.delete that reports success and leaves the row in place.
TaskRepository_delete_KeepsRow(T, task_id) ==
    IF task_id \notin DOMAIN T THEN [tasks |-> T, res |-> Return(BoolV(FALSE))]
    ELSE [tasks |-> T, res |-> Return(BoolV(TRUE))]

TaskRepository_delete(T, task_id) ==
    IF task_id \notin DOMAIN T THEN [tasks |-> T, res |-> Return(BoolV(FALSE))]
    ELSE [tasks |-> Drop(T, task_id), res |-> Return(BoolV(TRUE))]

\* The two statements of TaskRepository.delete.  The SELECT by id: no row,
\* and delete returns False.
TaskRepository_delete_first(T, task_id) ==
    IF task_id \in DOMAIN T THEN T[task_id] ELSE None

\* db.delete and db.commit: DELETE ... WHERE id = task_id.  A DELETE that
\* matches no row is reported as a warning, not as an error, and delete
\* returns True.
TaskRepository_delete_commit(T, task_id) ==
    [tasks |-> IF task_id \in DOMAIN T THEN Drop(T, task_id) ELSE T,
     res |-> Return(BoolV(TRUE))]

\* The rows of T with an id in ids, as the list a query without ORDER BY
\* returns them: in the order of the table scan, by id.
RECURSIVE Scan(_, _)
Scan(T, ids) ==
    IF ids = {} THEN <<>>
    ELSE <<T[Min(ids)]>> \o Scan(T, ids \ {Min(ids)})

\* Query.offset(skip) and Query.limit(limit) on the list of result rows.
Offset(rows, skip) == SubSeq(rows, skip + 1, Len(rows))

Limit(rows, limit) == SubSeq(rows, 1, Min({limit, Len(rows)}))

OwnedBy(T, user_id) == {i \in DOMAIN T : T[i].owner_id = user_id}

TaskRepository_get_by_user(T, user_id, skip, limit) ==
    Limit(Offset(Scan(T, OwnedBy(T, user_id)), skip), limit)

TaskRepository_get_completed_tasks(T, user_id) ==
    Scan(T, {i \in OwnedBy(T, user_id) : T[i].completed = TRUE})

TaskRepository_get_pending_tasks(T, user_id) ==
    Scan(T, {i \in OwnedBy(T, user_id) : T[i].completed = FALSE})

TaskRepository_count_by_user(T, user_id) == Cardinality(OwnedBy(T, user_id))

TaskRepository_count_completed_by_user(T, user_id) ==
    Cardinality({i \in OwnedBy(T, user_id) : T[i].completed = TRUE})

(***************************************************************************)
(* UserService                                                             *)
(***************************************************************************)
\* register_user without the existence check.
UserService_register_user_NoExistsCheck(U, username, password) ==
    IF len(username) < USERNAME_MIN \/ len(username) > USERNAME_MAX
    THEN [res |-> Raise("ValueError", "Username must be between 3 and 50 characters"),
          user |-> None]
    ELSE IF len(password) < PASSWORD_MIN
    THEN [res |-> Raise("ValueError", "Password must be at least 8 characters"),
          user |-> None]
    ELSE [res |-> NoResult,
          user |-> [username |-> username,
                    hashed_password |-> get_password_hash(password)]]

\* register_user that checks only the lower bound of the username length.
UserService_register_user_NoUpperBound(U, username, password) ==
    IF UserRepository_get_by_username(U, username) /= None
    THEN [res |-> Raise("ValueError", "already exists"), user |-> None]
    ELSE IF len(username) < USERNAME_MIN
    THEN [res |-> Raise("ValueError", "Username must be between 3 and 50 characters"),
          user |-> None]
    ELSE IF len(password) < PASSWORD_MIN
    THEN [res |-> Raise("ValueError", "Password must be at least 8 characters"),
          user |-> None]
    ELSE [res |-> NoResult,
          user |-> [username |-> username,
                    hashed_password |-> get_password_hash(password)]]

\* register_user up to the call of UserRepository.create: the outcome when
\* it raises, otherwise pending with the User object to insert.
UserService_register_user(U, username, password) ==
    IF UserRepository_get_by_username(U, username) /= None
    THEN [res |-> Raise("ValueError", "already exists"), user |-> None]
    ELSE IF len(username) < USERNAME_MIN \/ len(username) > USERNAME_MAX
    THEN [res |-> Raise("ValueError", "Username must be between 3 and 50 characters"),
          user |-> None]
    ELSE IF len(password) < PASSWORD_MIN
    THEN [res |-> Raise("ValueError", "Password must be at least 8 characters"),
          user |-> None]
    ELSE [res |-> NoResult,
          user |-> [username |-> username,
                    hashed_password |-> get_password_hash(password)]]

\* authenticate_user that compares the password with the stored digest.
UserService_authenticate_user_PlainCompare(U, username, password) ==
    LET user == UserRepository_get_by_username(U, username)
    IN  IF user = None THEN None
        ELSE IF password /= user.hashed_password THEN None
        ELSE user

UserService_authenticate_user(U, username, password) ==
    LET user == UserRepository_get_by_username(U, username)
    IN  IF user = None THEN None
        ELSE IF ~verify_password(password, user.hashed_password) THEN None
        ELSE user

\* login that tells an unknown username from a wrong password.
login_Distinct(U, username, password, now) ==
    LET user == UserService_authenticate_user(U, username, password)
    IN  IF UserRepository_get_by_username(U, username) = None
        THEN [status |-> 404, detail |-> "User not found",
              headers |-> "WWW-Authenticate: Bearer"]
        ELSE IF user = None
        THEN [status |-> 401, detail |-> "Incorrect username or password",
              headers |-> "WWW-Authenticate: Bearer"]
        ELSE [status |-> 200,
              access_token |-> create_access_token(user.username,
                                                   ACCESS_TOKEN_EXPIRE_MINUTES, now),
              token_type |-> "bearer"]

\* routers.auth.login: the HTTP response.
login(U, username, password, now) ==
    LET user == UserService_authenticate_user(U, username, password)
    IN  IF user = None
        THEN [status |-> 401, detail |-> "Incorrect username or password",
              headers |-> "WWW-Authenticate: Bearer"]
        ELSE [status |-> 200,
              access_token |-> create_access_token(user.username,
                                                   ACCESS_TOKEN_EXPIRE_MINUTES, now),
              token_type |-> "bearer"]

(***************************************************************************)
(* TaskService                                                             *)
(***************************************************************************)
TaskService_get_task(T, task_id, user_id) ==
    TaskRepository_get_by_user_and_id(T, task_id, user_id)

\* create_task that stores the title as given.
TaskService_create_task_NoStrip(user_id, title, description) ==
    IF ~truthy(title) \/ len(strip(title)) = 0
    THEN [res |-> Raise("ValueError", "Task title cannot be empty"), task |-> None]
    ELSE IF len(title) > TITLE_MAX
    THEN [res |-> Raise("ValueError", "Task title must be less than 255 characters"),
          task |-> None]
    ELSE IF truthy(description) /\ len(description) > DESCRIPTION_MAX
    THEN [res |-> Raise("ValueError", "Task description must be less than 2000 characters"),
          task |-> None]
    ELSE [res |-> NoResult,
          task |-> [title |-> title,
                    description |-> IF truthy(description) THEN strip(description)
                                    ELSE None,
                    completed |-> FALSE,
                    owner_id |-> user_id]]

\* create_task that measures the title after trimming it.
TaskService_create_task_StrippedLen(user_id, title, description) ==
    IF ~truthy(title) \/ len(strip(title)) = 0
    THEN [res |-> Raise("ValueError", "Task title cannot be empty"), task |-> None]
    ELSE IF len(strip(title)) > TITLE_MAX
    THEN [res |-> Raise("ValueError", "Task title must be less than 255 characters"),
          task |-> None]
    ELSE IF truthy(description) /\ len(description) > DESCRIPTION_MAX
    THEN [res |-> Raise("ValueError", "Task description must be less than 2000 characters"),
          task |-> None]
    ELSE [res |-> NoResult,
          task |-> [title |-> strip(title),
                    description |-> IF truthy(description) THEN strip(description)
                                    ELSE None,
                    completed |-> FALSE,
                    owner_id |-> user_id]]

\* create_task up to the call of TaskRepository.create.
TaskService_create_task(user_id, title, description) ==
    IF ~truthy(title) \/ len(strip(title)) = 0
    THEN [res |-> Raise("ValueError", "Task title cannot be empty"), task |-> None]
    ELSE IF len(title) > TITLE_MAX
    THEN [res |-> Raise("ValueError", "Task title must be less than 255 characters"),
          task |-> None]
    ELSE IF truthy(description) /\ len(description) > DESCRIPTION_MAX
    THEN [res |-> Raise("ValueError", "Task description must be less than 2000 characters"),
          task |-> None]
    ELSE [res |-> NoResult,
          task |-> [title |-> strip(title),
                    description |-> IF truthy(description) THEN strip(description)
                                    ELSE None,
                    completed |-> FALSE,
                    owner_id |-> user_id]]

\* update_task up to the call of TaskRepository.update: the owner-scoped
\* read, then the validation and normalisation of the keyword arguments.
TaskService_update_task(T, task_id, user_id, update_data) ==
    LET task  == TaskRepository_get_by_user_and_id(T, task_id, user_id)
        hasT  == "title" \in DOMAIN update_data
        hasD  == "description" \in DOMAIN update_data /\ truthy(update_data["description"])
        data  == [k \in DOMAIN update_data |->
                    IF k = "title" \/ (k = "description" /\ hasD)
                    THEN strip(update_data[k]) ELSE update_data[k]]
    IN  IF task = None THEN [res |-> Return(None), data |-> update_data, task |-> None]
        ELSE IF hasT /\ (~truthy(update_data["title"]) \/ len(strip(update_data["title"])) = 0)
        THEN [res |-> Raise("ValueError", "Task title cannot be empty"),
              data |-> update_data, task |-> task]
        ELSE IF hasT /\ len(update_data["title"]) > TITLE_MAX
        THEN [res |-> Raise("ValueError", "Task title must be less than 255 characters"),
              data |-> update_data, task |-> task]
        ELSE IF hasD /\ len(update_data["description"]) > DESCRIPTION_MAX
        THEN [res |-> Raise("ValueError", "Task description must be less than 2000 characters"),
              data |-> update_data, task |-> task]
        ELSE [res |-> NoResult, data |-> data, task |-> task]

\* complete_task and incomplete_task that flip the flag of the loaded task.
TaskService_set_completed_Toggle(T, task_id, user_id, completed) ==
    LET task == TaskRepository_get_by_user_and_id(T, task_id, user_id)
    IN  IF task = None THEN [res |-> Return(None), data |-> <<>>, task |-> None]
        ELSE [res |-> NoResult,
              data |-> [k \in {"completed"} |-> BoolV(~task.completed)],
              task |-> task]

\* complete_task and incomplete_task up to the call of TaskRepository.update:
\* the owner-scoped read, the assignment to the loaded object, and the
\* keyword argument handed on.
TaskService_set_completed(T, task_id, user_id, completed) ==
    LET task == TaskRepository_get_by_user_and_id(T, task_id, user_id)
    IN  IF task = None THEN [res |-> Return(None), data |-> <<>>, task |-> None]
        ELSE [res |-> NoResult, data |-> [k \in {"completed"} |-> BoolV(completed)],
              task |-> task]

\* delete_task that looks the task up by id alone.
TaskService_delete_task_ById(T, task_id, user_id) ==
    LET task == IF task_id \in DOMAIN T THEN T[task_id] ELSE None
    IN  IF task = None THEN [res |-> Return(BoolV(FALSE)), task |-> None]
        ELSE [res |-> NoResult, task |-> task]

\* delete_task up to the call of TaskRepository.delete.
TaskService_delete_task(T, task_id, user_id) ==
    LET task == TaskRepository_get_by_user_and_id(T, task_id, user_id)
    IN  IF task = None THEN [res |-> Return(BoolV(FALSE)), task |-> None]
        ELSE [res |-> NoResult, task |-> task]

\* filter_completed is None, True or False; skip and limit are handed on
\* only when it is None.
TaskService_get_user_tasks(T, user_id, skip, limit, filter_completed) ==
    IF filter_completed = None
    THEN TaskRepository_get_by_user(T, user_id, skip, limit)
    ELSE IF filter_completed.bool
    THEN TaskRepository_get_completed_tasks(T, user_id)
    ELSE TaskRepository_get_pending_tasks(T, user_id)

RECURSIVE gcd(_, _)
gcd(a, b) == IF b = 0 THEN a ELSE gcd(b, a % b)

\* A number as the fraction num/den in lowest terms.
Number(num, den) ==
    LET g == gcd(num, den) IN [num |-> num \div g, den |-> den \div g]

\* get_task_statistics that divides without the guard on total_tasks; the
\* quotient of a division by zero is no number.
TaskService_get_task_statistics_Unguarded(T, user_id) ==
    LET total_tasks     == TaskRepository_count_by_user(T, user_id)
        completed_tasks == TaskRepository_count_completed_by_user(T, user_id)
        pending_tasks   == total_tasks - completed_tasks
    IN  [total_tasks |-> total_tasks,
         completed_tasks |-> completed_tasks,
         pending_tasks |-> pending_tasks,
         completion_percentage |->
             IF total_tasks > 0 THEN Number(completed_tasks * 100, total_tasks)
             ELSE [num |-> 0, den |-> 0]]

TaskService_get_task_statistics(T, user_id) ==
    LET total_tasks     == TaskRepository_count_by_user(T, user_id)
        completed_tasks == TaskRepository_count_completed_by_user(T, user_id)
        pending_tasks   == total_tasks - completed_tasks
    IN  [total_tasks |-> total_tasks,
         completed_tasks |-> completed_tasks,
         pending_tasks |-> pending_tasks,
         completion_percentage |->
             IF total_tasks > 0 THEN Number(completed_tasks * 100, total_tasks)
             ELSE Number(0, 1)]

\* GET /tasks/: the page of tasks and the total from the statistics.
read_tasks(T, user_id, skip, limit, completed) ==
    [items |-> TaskService_get_user_tasks(T, user_id, skip, limit, completed),
     total |-> TaskService_get_task_statistics(T, user_id).total_tasks,
     skip |-> skip,
     limit |-> limit]

Inserting == {q \in Procs : pc[q] = "insert"}

(***************************************************************************)
(* Initially both tables are empty and no request is in flight.            *)
(***************************************************************************)
Init ==
    /\ users = <<>>
    /\ tasks = <<>>
    /\ creator = <<>>
    /\ pc = [p \in Procs |-> "idle"]
    /\ req = [p \in Procs |-> NoRequest]
    /\ obj = [p \in Procs |-> None]
    /\ res = [p \in Procs |-> NoResult]
    /\ tokens = {}

\* The request of p moves to position at with arguments r, loaded object o
\* and outcome out; the clients then hold the tokens held.
Hand(p, at, r, o, out, held) ==
    /\ pc' = [pc EXCEPT ![p] = at]
    /\ req' = [req EXCEPT ![p] = r]
    /\ obj' = [obj EXCEPT ![p] = o]
    /\ res' = [res EXCEPT ![p] = out]
    /\ tokens' = held

\* The same for a step that hands out no token and deletes no user.
Step(p, at, r, o, out) == Hand(p, at, r, o, out, tokens)

(***************************************************************************)
(* UserService.register_user: the existence check and validation, then     *)
(* (RegisterInsert) the INSERT of UserRepository.create.                   *)
(***************************************************************************)
Register(p, username, password) ==
    /\ pc[p] = "idle"
    /\ LET r == UserService_register_user(users, username, password)
       IN  /\ r.res = NoResult =>
                Cardinality(DOMAIN users) + Cardinality(Inserting) < MaxUsers
           /\ Step(p, IF r.res = NoResult THEN "insert" ELSE "done",
                   [op |-> "register_user", username |-> username,
                    password |-> password, user |-> r.user],
                   None, r.res)
    /\ UNCHANGED <<users, tasks, creator>>

RegisterInsert(p) ==
    /\ pc[p] = "insert"
    /\ LET r == UserRepository_create(users, req[p].user)
       IN  /\ users' = r.users
           /\ Step(p, "done", req[p], None, r.res)
    /\ UNCHANGED <<tasks, creator>>

Login(p, username, password, now) ==
    /\ pc[p] = "idle"
    /\ LET user     == UserService_authenticate_user(users, username, password)
           response == login(users, username, password, now)
       IN  Hand(p, "done",
                [op |-> "login", username |-> username, password |-> password,
                 now |-> now],
                None, Return(response),
                IF response.status = 200
                THEN tokens \cup {[token |-> response.access_token, issued |-> now,
                                   uid |-> user.id, gone |-> FALSE]}
                ELSE tokens)
    /\ UNCHANGED <<users, tasks, creator>>

\* create_access_token called at clock reading now.
CreateAccessToken(p, username, minutes, now) ==
    /\ pc[p] = "idle"
    /\ Step(p, "done",
            [op |-> "create_access_token", username |-> username,
             minutes |-> minutes, now |-> now],
            None, Return(create_access_token(username, minutes, now)))
    /\ UNCHANGED <<users, tasks, creator>>

\* verify_token called at clock reading now with a token that was handed
\* out at clock reading issued (a history of the token, not a field of it).
VerifyToken(p, token, issued, now) ==
    /\ pc[p] = "idle"
    /\ issued <= now
    /\ Step(p, "done",
            [op |-> "verify_token", token |-> token, issued |-> issued,
             now |-> now],
            None, verify_token(token, now))
    /\ UNCHANGED <<users, tasks, creator>>

\* UserService.delete_user: one call of UserRepository.delete.
DeleteUser(p, user_id) ==
    /\ pc[p] = "idle"
    /\ LET r == UserRepository_delete(users, tasks, user_id)
       IN  /\ users' = r.users
           /\ tasks' = r.tasks
           /\ Hand(p, "done", [op |-> "delete_user", user_id |-> user_id],
                   None, r.res,
                   {IF k.uid = user_id /\ user_id \in DOMAIN users
                    THEN [k EXCEPT !.gone = TRUE] ELSE k : k \in tokens})
    /\ UNCHANGED creator

\* Depends(get_current_user) on its own: the identity a request with this
\* bearer token gets at clock reading now.
GetCurrentUser(p, bearer, now) ==
    /\ pc[p] = "idle"
    /\ bearer.issued <= now
    /\ Step(p, "done",
            [op |-> "get_current_user", token |-> bearer.token, now |-> now],
            None, get_current_user(users, bearer.token, now))
    /\ UNCHANGED <<users, tasks, creator>>

\* An endpoint of the tasks router: Depends(get_current_user) answers 401
\* before the body runs, or the body, the service call made with user_id,
\* runs with user_id = current_user.id.
TaskEndpoint(p, name, bearer, now, user_id, body) ==
    /\ bearer.issued <= now
    /\ LET current_user == get_current_user(users, bearer.token, now)
       IN  IF current_user.tag = "raise"
           THEN /\ pc[p] = "idle"
                /\ Step(p, "done",
                        [op |-> name, token |-> bearer.token, now |-> now],
                        None, current_user)
                /\ UNCHANGED <<users, tasks, creator>>
           ELSE /\ user_id = current_user.val.id
                /\ body

(***************************************************************************)
(* TaskService                                                             *)
(***************************************************************************)
GetTask(p, task_id, user_id) ==
    /\ pc[p] = "idle"
    /\ Step(p, "done",
            [op |-> "get_task", task_id |-> task_id, user_id |-> user_id],
            None, Return(TaskService_get_task(tasks, task_id, user_id)))
    /\ UNCHANGED <<users, tasks, creator>>

ReadTasks(p, user_id, skip, limit, completed) ==
    /\ pc[p] = "idle"
    /\ Step(p, "done",
            [op |-> "read_tasks", user_id |-> user_id, skip |-> skip,
             limit |-> limit, completed |-> completed],
            None, Return(read_tasks(tasks, user_id, skip, limit, completed)))
    /\ UNCHANGED <<users, tasks, creator>>

GetTaskStatistics(p, user_id) ==
    /\ pc[p] = "idle"
    /\ Step(p, "done",
            [op |-> "get_task_statistics", user_id |-> user_id],
            None, Return(TaskService_get_task_statistics(tasks, user_id)))
    /\ UNCHANGED <<users, tasks, creator>>

CreateTask(p, cap, user_id, title, description) ==
    /\ pc[p] = "idle"
    /\ LET v == TaskService_create_task(user_id, title, description)
           r == TaskRepository_create(tasks, v.task)
           q == [op |-> "create_task", user_id |-> user_id, title |-> title,
                 description |-> description]
       IN  IF v.res /= NoResult
           THEN /\ Step(p, "done", q, None, v.res)
                /\ UNCHANGED <<tasks, creator>>
           ELSE /\ Cardinality(DOMAIN tasks) < cap
                /\ tasks' = r.tasks
                /\ creator' = Put(creator, r.res.val.id, user_id)
                /\ Step(p, "done", q, None, r.res)
    /\ UNCHANGED users

UpdateTask(p, task_id, user_id, update_data) ==
    /\ pc[p] = "idle"
    /\ LET r == TaskService_update_task(tasks, task_id, user_id, update_data)
       IN  Step(p, IF r.res = NoResult THEN "update" ELSE "done",
                [op |-> "update_task", task_id |-> task_id, user_id |-> user_id,
                 update_data |-> update_data, kwargs |-> r.data],
                r.task, r.res)
    /\ UNCHANGED <<users, tasks, creator>>

CompleteTask(p, task_id, user_id) ==
    /\ pc[p] = "idle"
    /\ LET r == TaskService_set_completed(tasks, task_id, user_id, TRUE)
       IN  Step(p, IF r.res = NoResult THEN "update" ELSE "done",
                [op |-> "complete_task", task_id |-> task_id, user_id |-> user_id,
                 update_data |-> <<>>, kwargs |-> r.data],
                r.task, r.res)
    /\ UNCHANGED <<users, tasks, creator>>

IncompleteTask(p, task_id, user_id) ==
    /\ pc[p] = "idle"
    /\ LET r == TaskService_set_completed(tasks, task_id, user_id, FALSE)
       IN  Step(p, IF r.res = NoResult THEN "update" ELSE "done",
                [op |-> "incomplete_task", task_id |-> task_id, user_id |-> user_id,
                 update_data |-> <<>>, kwargs |-> r.data],
                r.task, r.res)
    /\ UNCHANGED <<users, tasks, creator>>

\* TaskRepository.update as called by update_task, complete_task and
\* incomplete_task.
RepoUpdate(p) ==
    /\ pc[p] = "update"
    /\ LET r == TaskRepository_update(tasks, req[p].task_id, req[p].kwargs, obj[p])
       IN  /\ tasks' = r.tasks
           /\ Step(p, "done", req[p], obj[p], r.res)
    /\ UNCHANGED <<users, creator>>

DeleteTask(p, task_id, user_id) ==
    /\ pc[p] = "idle"
    /\ LET r == TaskService_delete_task(tasks, task_id, user_id)
       IN  Step(p, IF r.res = NoResult THEN "delete" ELSE "done",
                [op |-> "delete_task", task_id |-> task_id, user_id |-> user_id],
                r.task, r.res)
    /\ UNCHANGED <<users, tasks, creator>>

\* TaskRepository.delete as called by delete_task.
RepoDelete(p) ==
    /\ pc[p] = "delete"
    /\ LET r == TaskRepository_delete(tasks, req[p].task_id)
       IN  /\ tasks' = r.tasks
           /\ creator' = [i \in DOMAIN r.tasks |-> creator[i]]
           /\ Step(p, "done", req[p], obj[p], r.res)
    /\ UNCHANGED users

\* TaskRepository.delete statement by statement: the SELECT by id ...
RepoDeleteFirst(p) ==
    /\ pc[p] = "delete"
    /\ LET task == TaskRepository_delete_first(tasks, req[p].task_id)
       IN  IF task = None
           THEN Step(p, "done", req[p], obj[p], Return(BoolV(FALSE)))
           ELSE Step(p, "commit", req[p], obj[p], NoResult)
    /\ UNCHANGED <<users, tasks, creator>>

\* ... and the DELETE with its commit.
RepoDeleteCommit(p) ==
    /\ pc[p] = "commit"
    /\ LET r == TaskRepository_delete_commit(tasks, req[p].task_id)
       IN  /\ tasks' = r.tasks
           /\ creator' = [i \in DOMAIN r.tasks |-> creator[i]]
           /\ Step(p, "done", req[p], obj[p], r.res)
    /\ UNCHANGED users

\* The response has been sent and the session closed.
Respond(p) ==
    /\ pc[p] = "done"
    /\ Step(p, "idle", NoRequest, None, NoResult)
    /\ UNCHANGED <<users, tasks, creator>>

(***************************************************************************)
(* Arguments of the calls and the steps of a request.                      *)
(***************************************************************************)
TaskIds(cap) == 1 .. cap

ValidUsernames == {Str(0, "a", 3, 0), Str(0, "b", 50, 0)}

ValidPasswords == {Str(0, "p", 8, 0)}

\* The next database round trip of request p, or its response.
Continue(p) ==
    \/ RegisterInsert(p)
    \/ RepoUpdate(p)
    \/ RepoDelete(p)
    \/ Respond(p)

(***************************************************************************)
(* Spec: concurrent requests.  Two requests interleave at every database   *)
(* round trip.                                                             *)
(***************************************************************************)
Titles == {Str(0, "a", 1, 0)}

UpdateDatas == {[k \in {"title"} |-> Str(1, "a", 253, 1)]}

Next ==
    \E p \in Procs :
        \/ \E n \in ValidUsernames, w \in ValidPasswords : Register(p, n, w)
        \/ \E u \in DOMAIN users, t \in Titles : CreateTask(p, MaxRaceTasks, u, t, None)
        \/ \E t \in TaskIds(MaxRaceTasks), u \in DOMAIN users, d \in UpdateDatas :
              UpdateTask(p, t, u, d)
        \/ \E t \in TaskIds(MaxRaceTasks), u \in DOMAIN users : CompleteTask(p, t, u)
        \/ \E t \in TaskIds(MaxRaceTasks), u \in DOMAIN users : IncompleteTask(p, t, u)
        \/ \E t \in TaskIds(MaxRaceTasks), u \in DOMAIN users : DeleteTask(p, t, u)
        \/ Continue(p)

Spec == Init /\ [][Next]_vars

(***************************************************************************)
(* SpecUsers: registration and login, one request at a time, over          *)
(* usernames and passwords on both sides of each length limit.             *)
(***************************************************************************)
\* Clock readings at which tokens are issued.
IssueTimes == {0, 1}

SeqUsernames == ValidUsernames \cup {Str(0, "a", 2, 0), Str(0, "b", 51, 0)}

SeqPasswords == ValidPasswords \cup {Str(0, "q", 8, 0), Str(0, "p", 7, 0)}

NextUsers ==
    \/ \E n \in SeqUsernames, w \in SeqPasswords : Register("r1", n, w)
    \/ \E n \in SeqUsernames, w \in SeqPasswords, now \in IssueTimes :
          Login("r1", n, w, now)
    \/ RegisterInsert("r1")
    \/ Respond("r1")

SpecUsers == Init /\ [][NextUsers]_vars

(***************************************************************************)
(* SpecTasks: the task methods, one request at a time, over the arguments  *)
(* that reach every branch of the validation: lengths on both sides of     *)
(* each limit, blank and padded strings, None.                             *)
(***************************************************************************)
SeqTitles == {EmptyStr, Str(1, "a", 0, 0), Str(0, "a", 1, 0),
              Str(1, "a", 253, 1), Str(1, "a", 254, 1)}

SeqDescriptions == {None, EmptyStr, Str(1, "d", 0, 0),
                    Str(1, "d", 1998, 1), Str(1, "d", 1999, 1)}

SeqUpdateDatas ==
    {<<>>}
    \cup {[k \in {"title"} |-> t] : t \in SeqTitles \cup {None}}
    \cup {[k \in {"description"} |-> d] : d \in SeqDescriptions}
    \cup {[k \in {"completed"} |-> c] : c \in {BoolV(TRUE), BoolV(FALSE), None}}
    \cup {[title |-> Str(0, "a", 1, 0), description |-> EmptyStr],
          [title |-> Str(1, "a", 254, 1), completed |-> BoolV(TRUE)]}

NextTasks ==
    \/ \E n \in ValidUsernames, w \in ValidPasswords : Register("r1", n, w)
    \/ \E t \in TaskIds(MaxTasks), u \in DOMAIN users : GetTask("r1", t, u)
    \/ \E u \in DOMAIN users, t \in SeqTitles, d \in SeqDescriptions :
          CreateTask("r1", MaxTasks, u, t, d)
    \/ \E t \in TaskIds(MaxTasks), u \in DOMAIN users, d \in SeqUpdateDatas :
          UpdateTask("r1", t, u, d)
    \/ \E t \in TaskIds(MaxTasks), u \in DOMAIN users : CompleteTask("r1", t, u)
    \/ \E t \in TaskIds(MaxTasks), u \in DOMAIN users : IncompleteTask("r1", t, u)
    \/ \E t \in TaskIds(MaxTasks), u \in DOMAIN users : DeleteTask("r1", t, u)
    \/ Continue("r1")

SpecTasks == Init /\ [][NextTasks]_vars

(***************************************************************************)
(* SpecViews: the list and the statistics, one request at a time, over     *)
(* task tables built by create, update, complete, incomplete and delete.   *)
(***************************************************************************)
Skips == {0, 1}

Limits == {1, 2}

Filters == {None, BoolV(TRUE), BoolV(FALSE)}

NextViews ==
    \/ \E n \in ValidUsernames, w \in ValidPasswords : Register("r1", n, w)
    \/ \E u \in DOMAIN users, t \in Titles : CreateTask("r1", MaxTasks, u, t, None)
    \/ \E t \in TaskIds(MaxTasks), u \in DOMAIN users : CompleteTask("r1", t, u)
    \/ \E t \in TaskIds(MaxTasks), u \in DOMAIN users : IncompleteTask("r1", t, u)
    \/ \E t \in TaskIds(MaxTasks), u \in DOMAIN users : DeleteTask("r1", t, u)
    \/ \E t \in TaskIds(MaxTasks), u \in DOMAIN users : GetTask("r1", t, u)
    \/ \E t \in TaskIds(MaxTasks), u \in DOMAIN users, d \in UpdateDatas :
          UpdateTask("r1", t, u, d)
    \/ \E u \in DOMAIN users, s \in Skips, l \in Limits, c \in Filters :
          ReadTasks("r1", u, s, l, c)
    \/ \E u \in DOMAIN users : GetTaskStatistics("r1", u)
    \/ Continue("r1")

SpecViews == Init /\ [][NextViews]_vars

(***************************************************************************)
(* SpecOwner: TaskService called with keyword arguments beyond the fields  *)
(* of TaskUpdate: update_task takes **update_data and hands every key on   *)
(* to TaskRepository.update.                                               *)
(***************************************************************************)
OwnerUpdateDatas ==
    UpdateDatas
    \cup {[k \in {"owner_id"} |-> IntV(u)] : u \in DOMAIN users}
    \cup {[title |-> t, owner_id |-> IntV(u)] : t \in Titles, u \in DOMAIN users}

NextOwner ==
    \/ \E n \in ValidUsernames, w \in ValidPasswords : Register("r1", n, w)
    \/ \E u \in DOMAIN users, t \in Titles : CreateTask("r1", MaxTasks, u, t, None)
    \/ \E t \in TaskIds(MaxTasks), u \in DOMAIN users : GetTask("r1", t, u)
    \/ \E t \in TaskIds(MaxTasks), u \in DOMAIN users, d \in OwnerUpdateDatas :
          UpdateTask("r1", t, u, d)
    \/ \E t \in TaskIds(MaxTasks), u \in DOMAIN users : DeleteTask("r1", t, u)
    \/ Continue("r1")

SpecOwner == Init /\ [][NextOwner]_vars

(***************************************************************************)
(* SpecDirectory: users come and go.  UserService.delete_user is called    *)
(* between task requests, one call at a time.                              *)
(***************************************************************************)
UserIds == 1 .. MaxUsers

NextDirectory ==
    \/ \E n \in ValidUsernames, w \in ValidPasswords : Register("r1", n, w)
    \/ \E u \in UserIds : DeleteUser("r1", u)
    \/ \E u \in DOMAIN users, t \in Titles : CreateTask("r1", MaxTasks, u, t, None)
    \/ \E t \in TaskIds(MaxTasks), u \in DOMAIN users : GetTask("r1", t, u)
    \/ \E t \in TaskIds(MaxTasks), u \in DOMAIN users : CompleteTask("r1", t, u)
    \/ \E t \in TaskIds(MaxTasks), u \in DOMAIN users : DeleteTask("r1", t, u)
    \/ Continue("r1")

SpecDirectory == Init /\ [][NextDirectory]_vars

(***************************************************************************)
(* SpecTokens: tokens are issued with several times to live and presented   *)
(* at every later clock reading, as issued, with the subject altered, or    *)
(* signed with another key.                                                 *)
(***************************************************************************)
Clock == 0 .. MaxClock

Ttls == {0, 1, ACCESS_TOKEN_EXPIRE_MINUTES}

\* The tokens a client can present in place of an issued token t.
Presented(t) ==
    {t,
     [t EXCEPT !.sub = Str(0, "m", 3, 0)],
     [t EXCEPT !.exp = t.exp + 1],
     [t EXCEPT !.sig = Sign("another key", t.sub, t.exp)]}

NextTokens ==
    \/ \E n \in ValidUsernames, m \in Ttls, now \in IssueTimes :
          CreateAccessToken("r1", n, m, now)
    \/ \E n \in ValidUsernames, m \in Ttls, issued \in IssueTimes, now \in Clock :
          \E t \in Presented(create_access_token(n, m, issued)) :
              VerifyToken("r1", t, issued, now)
    \/ Respond("r1")

SpecTokens == Init /\ [][NextTokens]_vars

(***************************************************************************)
(* SpecIdentity: requests carry bearer tokens.  Users register, log in and *)
(* are deleted; the endpoints of the tasks router are called with no       *)
(* token, with a token login handed out, or with such a token altered, at  *)
(* clock readings before and after its expiry.                             *)
(***************************************************************************)
LoginTimes == {0}

RequestTimes == {0, ACCESS_TOKEN_EXPIRE_MINUTES, ACCESS_TOKEN_EXPIRE_MINUTES + 1}

\* An issued token t with a signature made without the server's key.
Forged(t) == [t EXCEPT !.sig = Sign("another key", t.sub, t.exp)]

NoBearer == [token |-> None, issued |-> 0]

Bearers ==
    {NoBearer}
    \cup UNION {{[token |-> t, issued |-> k.issued] : t \in {k.token, Forged(k.token)}} :
                 k \in tokens}

\* The ids current_user.id can take.
Callers == UserIds \cup DOMAIN users

NextIdentity ==
    \/ \E n \in ValidUsernames, w \in ValidPasswords : Register("r1", n, w)
    \/ \E n \in ValidUsernames, w \in ValidPasswords, now \in LoginTimes :
          Login("r1", n, w, now)
    \/ \E u \in UserIds : DeleteUser("r1", u)
    \/ \E b \in Bearers, now \in RequestTimes : GetCurrentUser("r1", b, now)
    \/ \E b \in Bearers, now \in RequestTimes, u \in Callers, t \in Titles :
          TaskEndpoint("r1", "create_task", b, now, u,
                       CreateTask("r1", MaxRaceTasks, u, t, None))
    \/ \E b \in Bearers, now \in RequestTimes, u \in Callers,
          t \in TaskIds(MaxRaceTasks) :
          TaskEndpoint("r1", "complete_task", b, now, u, CompleteTask("r1", t, u))
    \/ \E b \in Bearers, now \in RequestTimes, u \in Callers,
          t \in TaskIds(MaxRaceTasks) :
          TaskEndpoint("r1", "delete_task", b, now, u, DeleteTask("r1", t, u))
    \/ Continue("r1")

SpecIdentity == Init /\ [][NextIdentity]_vars

(***************************************************************************)
(* SpecDeletes: concurrent delete requests.  Two requests interleave at    *)
(* every statement: the owner-scoped SELECT of delete_task, the SELECT by  *)
(* id of TaskRepository.delete, and its DELETE with the commit.            *)
(***************************************************************************)
NextDeletes ==
    \E p \in Procs :
        \/ \E n \in ValidUsernames, w \in ValidPasswords : Register(p, n, w)
        \/ \E u \in DOMAIN users, t \in Titles : CreateTask(p, MaxRaceTasks, u, t, None)
        \/ \E t \in TaskIds(MaxRaceTasks), u \in DOMAIN users : DeleteTask(p, t, u)
        \/ RegisterInsert(p)
        \/ RepoDeleteFirst(p)
        \/ RepoDeleteCommit(p)
        \/ Respond(p)

SpecDeletes == Init /\ [][NextDeletes]_vars

(***************************************************************************)
(* Properties.                                                             *)
(***************************************************************************)
\* Request p makes a call of one of the methods in ops in this step.
Calls(p, ops) == pc[p] = "idle" /\ pc'[p] /= "idle" /\ req'[p].op \in ops

\* Request p has the outcome of a call of one of the methods in ops.
Finished(p, ops) == pc[p] = "done" /\ req[p].op \in ops

Mutators == {"update_task", "complete_task", "incomplete_task", "delete_task"}

NotFound(op) == IF op = "delete_task" THEN Return(BoolV(FALSE)) ELSE Return(None)

\* C1 (as claimed): in every reachable state, for every task t in the store, created by
\* user A, and every other user B, get_task(t.id, B) returns None, the same
\* value it returns for an id that denotes no task.
C1_GetTaskHidesForeignTask ==
    \A t \in DOMAIN tasks, B \in DOMAIN users :
        B /= creator[t] =>
            /\ TaskService_get_task(tasks, t, B) = None
            /\ TaskService_get_task(tasks, NextId(tasks), B)
                 = TaskService_get_task(tasks, t, B)

C1_Witness ==
    \E p \in Procs :
        /\ Finished(p, {"get_task"})
        /\ req[p].task_id \in DOMAIN tasks
        /\ creator[req[p].task_id] /= req[p].user_id
        /\ res[p] = Return(None)

\* C2: a call of update_task, complete_task, incomplete_task or delete_task
\* by user B with the id of a task owned by another user returns None (False
\* for delete) at once, with no write pending, and leaves the task table as
\* it was.
C2_ForeignMutationNotFound ==
    [][\A p \in Procs :
          (/\ Calls(p, Mutators)
           /\ req'[p].task_id \in DOMAIN tasks
           /\ tasks[req'[p].task_id].owner_id /= req'[p].user_id)
          => /\ pc'[p] = "done"
             /\ res'[p] = NotFound(req'[p].op)
             /\ tasks' = tasks]_vars

C2_Witness ==
    \E p \in Procs :
        /\ Finished(p, Mutators)
        /\ req[p].task_id \in DOMAIN tasks
        /\ tasks[req[p].task_id].owner_id /= req[p].user_id
        /\ res[p] = NotFound(req[p].op)

\* C3 (as claimed): whenever the repository write of an update, complete,
\* incomplete or delete request changes the task table, the task it changes
\* is, at the moment of the write, owned by the requesting user.
C3_WriteOnlyOwnTask ==
    [][\A p \in Procs :
          (pc[p] \in {"update", "delete"} /\ pc'[p] = "done" /\ tasks' /= tasks)
          => /\ req[p].task_id \in DOMAIN tasks
             /\ tasks[req[p].task_id].owner_id = req[p].user_id]_vars

\* C4: register_user with a username that is already in the users table
\* raises ValueError and leaves the users table unchanged.
C4_DuplicateUsernameRejected ==
    [][\A p \in Procs :
          (/\ Calls(p, {"register_user"})
           /\ UserRepository_get_by_username(users, req'[p].username) /= None)
          => /\ pc'[p] = "done"
             /\ res'[p].tag = "raise"
             /\ res'[p].exc = "ValueError"
             /\ users' = users]_vars

C4_Witness ==
    \E p \in Procs :
        /\ Finished(p, {"register_user"})
        /\ res[p] = Raise("ValueError", "already exists")
        /\ \E i \in DOMAIN users :
              /\ users[i].username = req[p].username
              /\ users[i].hashed_password /= get_password_hash(req[p].password)

\* C5: in every reachable state no two user rows have the same username, and
\* a register request whose INSERT meets a row with its username, inserted
\* since its existence check, ends with an error and adds no row.
C5_UsernameUnique ==
    /\ [](\A i, j \in DOMAIN users : users[i].username = users[j].username => i = j)
    /\ [][\A p \in Procs :
            (/\ pc[p] = "insert" /\ pc'[p] /= "insert"
             /\ ~UniqueUsername(users, req[p].user.username))
            => /\ pc'[p] = "done"
               /\ res'[p].tag = "raise"
               /\ users' = users]_vars

C5_Witness ==
    \E p \in Procs :
        /\ Finished(p, {"register_user"})
        /\ res[p].tag = "raise"
        /\ res[p].exc = "IntegrityError"
        /\ \E i \in DOMAIN users : users[i].username = req[p].username

ValidCredentials(username, password) ==
    /\ len(username) >= USERNAME_MIN
    /\ len(username) <= USERNAME_MAX
    /\ len(password) >= PASSWORD_MIN

\* C6: register_user with a valid username and password, the username not
\* yet registered, goes on to insert the user and returns it, and in the
\* state it leaves authenticate_user with the same credentials returns a
\* user with that username.
C6_RegisterThenAuthenticate ==
    [][\A p \in Procs :
          /\ (/\ Calls(p, {"register_user"})
              /\ ValidCredentials(req'[p].username, req'[p].password)
              /\ UserRepository_get_by_username(users, req'[p].username) = None)
             => pc'[p] = "insert"
          /\ (pc[p] = "insert" /\ pc'[p] = "done")
             => /\ res'[p].tag = "return"
                /\ LET u == UserService_authenticate_user(users', req[p].username,
                                                          req[p].password)
                   IN  u /= None /\ u.username = req[p].username]_vars

C6_Witness ==
    \E p \in Procs :
        /\ Finished(p, {"login"})
        /\ res[p].val.status = 200
        /\ res[p].val.access_token.sub = req[p].username

Unauthorized ==
    [status |-> 401, detail |-> "Incorrect username or password",
     headers |-> "WWW-Authenticate: Bearer"]

\* C7: a login whose username is not registered and a login whose password
\* is wrong both get None from authenticate_user and the same response, 401
\* "Incorrect username or password", which carries no token.
C7_LoginFailuresAlike ==
    \A p \in Procs :
        Finished(p, {"login"}) =>
            LET u == UserRepository_get_by_username(users, req[p].username)
            IN  (u = None \/ ~verify_password(req[p].password, u.hashed_password))
                => /\ UserService_authenticate_user(users, req[p].username,
                                                    req[p].password) = None
                   /\ res[p] = Return(Unauthorized)

C7_Witness ==
    \E p \in Procs :
        /\ Finished(p, {"login"})
        /\ UserRepository_get_by_username(users, req[p].username) /= None
        /\ res[p] = Return(Unauthorized)
        /\ \E n \in SeqUsernames :
              /\ UserRepository_get_by_username(users, n) = None
              /\ login(users, n, req[p].password, req[p].now) = res[p].val

\* C8: register_user raises ValueError when the username is shorter than 3
\* or longer than 50 characters or the password shorter than 8, and then
\* the users table is unchanged; the row a registration inserts carries the
\* hash of its password, which is set and is not the password.
C8_RegisterValidates ==
    [][\A p \in Procs :
          /\ (/\ Calls(p, {"register_user"})
              /\ ~ValidCredentials(req'[p].username, req'[p].password))
             => /\ pc'[p] = "done"
                /\ res'[p].tag = "raise"
                /\ res'[p].exc = "ValueError"
                /\ users' = users
          /\ (pc[p] = "insert" /\ pc'[p] = "done" /\ res'[p].tag = "return")
             => LET id == res'[p].val.id
                IN  /\ DOMAIN users' = DOMAIN users \cup {id}
                    /\ users'[id].hashed_password /= None
                    /\ users'[id].hashed_password /= req[p].password
                    /\ verify_password(req[p].password, users'[id].hashed_password)]_vars

C8_Witness ==
    \E p \in Procs :
        /\ Finished(p, {"register_user"})
        /\ len(req[p].username) > USERNAME_MAX
        /\ res[p].tag = "raise"
        /\ users /= <<>>

\* C9: a create_task that returns adds exactly one row, under an id no
\* other row has, with completed false, the caller as owner, the trimmed
\* title, and the trimmed description (null when none or an empty one was
\* given); every other row is as it was.
C9_CreateAddsOneTask ==
    [][\A p \in Procs :
          (Calls(p, {"create_task"}) /\ res'[p].tag = "return")
          => LET q  == req'[p]
                 id == res'[p].val.id
             IN  /\ id \notin DOMAIN tasks
                 /\ DOMAIN tasks' = DOMAIN tasks \cup {id}
                 /\ \A i \in DOMAIN tasks : tasks'[i] = tasks[i]
                 /\ tasks'[id] = res'[p].val
                 /\ tasks'[id].completed = FALSE
                 /\ tasks'[id].owner_id = q.user_id
                 /\ tasks'[id].title = strip(q.title)
                 /\ tasks'[id].description =
                        IF truthy(q.description) THEN strip(q.description) ELSE None]_vars

C9_Witness ==
    \E p \in Procs :
        /\ Finished(p, {"create_task"})
        /\ res[p].tag = "return"
        /\ req[p].title.lead > 0
        /\ req[p].description /= None
        /\ req[p].description.trail > 0
        /\ Cardinality(DOMAIN tasks) = 2

StoredTaskValid(t) ==
    /\ len(t.title) > 0
    /\ len(t.title) <= TITLE_MAX
    /\ t.description /= None => len(t.description) <= DESCRIPTION_MAX

\* C10: create_task raises ValueError when the trimmed title is empty, the
\* title is longer than 255 characters or the description longer than 2000,
\* and then the task table is unchanged; every stored task has a non-empty
\* title of at most 255 characters and a description of at most 2000.
C10_CreateValidates ==
    /\ [](\A t \in DOMAIN tasks : StoredTaskValid(tasks[t]))
    /\ [][\A p \in Procs :
            (/\ Calls(p, {"create_task"})
             /\ \/ len(strip(req'[p].title)) = 0
                \/ len(req'[p].title) > TITLE_MAX
                \/ (req'[p].description /= None
                    /\ len(req'[p].description) > DESCRIPTION_MAX))
            => /\ res'[p].tag = "raise"
               /\ res'[p].exc = "ValueError"
               /\ tasks' = tasks]_vars

C10_Witness ==
    \E p \in Procs :
        /\ Finished(p, {"create_task"})
        /\ res[p].tag = "raise"
        /\ len(req[p].title) > TITLE_MAX
        /\ len(strip(req[p].title)) <= TITLE_MAX
        /\ tasks /= <<>>

\* The ids of the tasks owned by user_id that the completed filter selects
\* (every owned task when the filter is None).
Matching(T, user_id, completed) ==
    {i \in OwnedBy(T, user_id) : completed = None \/ T[i].completed = completed.bool}

\* C11 (as claimed): the total a list request returns is the number of the
\* caller's tasks that match its completed filter, whatever skip and limit.
C11_TotalCountsMatching ==
    \A p \in Procs :
        Finished(p, {"read_tasks"}) =>
            res[p].val.total
              = Cardinality(Matching(tasks, req[p].user_id, req[p].completed))

\* C12 (as claimed): the items a list request returns are the caller's
\* tasks that match its completed filter, without the first skip of them
\* and at most limit of them, with and without a filter.
C12_ListPaginatesMatching ==
    \A p \in Procs :
        Finished(p, {"read_tasks"}) =>
            LET q        == req[p]
                matching == Scan(tasks, Matching(tasks, q.user_id, q.completed))
                items    == res[p].val.items
            IN  /\ Len(items) <= q.limit
                /\ items = Limit(Offset(matching, q.skip), q.limit)

\* Request p completes the repository write of a call of a method in ops.
Writes(p, ops) == pc[p] = "update" /\ pc'[p] = "done" /\ req[p].op \in ops

\* The value update_task is to store for a field given as value: the title
\* and the description trimmed, an explicit null as null.
Stored(key, value) ==
    IF value = None THEN None
    ELSE IF key = "completed" THEN value.bool
    ELSE strip(value)

\* C13 (as claimed): an update_task that returns the task has given every
\* field present in the partial update the value it carries (title and
\* description trimmed, within the limits of create) and has left every
\* field not present, the id and the owner as they were.
C13_UpdateChangesGivenFields ==
    [][\A p \in Procs :
          (Writes(p, {"update_task"}) /\ res'[p].tag = "return" /\ res'[p].val /= None)
          => LET id   == req[p].task_id
                 data == req[p].update_data
             IN  /\ res'[p].val = tasks'[id]
                 /\ StoredTaskValid(tasks'[id])
                 /\ tasks'[id].id = id
                 /\ tasks'[id].owner_id = tasks[id].owner_id
                 /\ \A k \in {"title", "description", "completed"} :
                       tasks'[id][k] =
                          IF k \in DOMAIN data /\ ~(k = "completed" /\ data[k] = None)
                          THEN Stored(k, data[k])
                          ELSE tasks[id][k]]_vars

\* C14 (as claimed): on a task with a description, an update_task that
\* carries description = null clears the description, where one that
\* carries no description leaves it as it is.
C14_NullDescriptionClears ==
    [][\A p \in Procs :
          (/\ Writes(p, {"update_task"})
           /\ res'[p].tag = "return" /\ res'[p].val /= None
           /\ tasks[req[p].task_id].description /= None)
          => LET id   == req[p].task_id
                 data == req[p].update_data
             IN  /\ ("description" \in DOMAIN data /\ data["description"] = None)
                      => tasks'[id].description = None
                 /\ "description" \notin DOMAIN data
                      => tasks'[id].description = tasks[id].description]_vars

\* C15: on a task of the caller, complete_task leaves completed true and
\* incomplete_task leaves it false, whatever it was, changes nothing else
\* and returns the stored task; the same call made again at once leaves the
\* task table as it is and returns the same task.
C15_SetCompletionIdempotent ==
    [][\A p \in Procs :
          Writes(p, {"complete_task", "incomplete_task"})
          => LET id    == req[p].task_id
                 flag  == req[p].op = "complete_task"
                 again == TaskService_set_completed(tasks', id, req[p].user_id, flag)
                 write == TaskRepository_update(tasks', id, again.data, again.task)
             IN  /\ tasks' = Put(tasks, id, [tasks[id] EXCEPT !.completed = flag])
                 /\ res'[p] = Return(tasks'[id])
                 /\ again.res = NoResult
                 /\ write.tasks = tasks'
                 /\ write.res = res'[p]]_vars

C15_Witness ==
    \E p \in Procs :
        /\ Finished(p, {"complete_task"})
        /\ obj[p] /= None
        /\ obj[p].completed = TRUE
        /\ res[p].tag = "return"
        /\ res[p].val.completed = TRUE
        /\ \E t \in DOMAIN tasks : tasks[t].completed = FALSE

\* C16: delete_task returns False at once, writing nothing, when the table
\* has no task with that id owned by the caller, and goes on to the delete
\* otherwise; the delete removes that row and no other and returns True,
\* and in the state it leaves get_task with that id returns None and the
\* same delete_task returns False.
C16_DeleteReportsRemoval ==
    [][\A p \in Procs :
          /\ Calls(p, {"delete_task"})
             => LET id    == req'[p].task_id
                    owned == id \in DOMAIN tasks /\ tasks[id].owner_id = req'[p].user_id
                IN  IF owned THEN pc'[p] = "delete"
                    ELSE /\ pc'[p] = "done"
                         /\ res'[p] = Return(BoolV(FALSE))
                         /\ tasks' = tasks
          /\ (pc[p] = "delete" /\ pc'[p] = "done")
             => LET id == req[p].task_id
                IN  /\ res'[p] = Return(BoolV(TRUE))
                    /\ id \in DOMAIN tasks
                    /\ tasks' = Drop(tasks, id)
                    /\ \A u \in DOMAIN users : TaskService_get_task(tasks', id, u) = None
                    /\ TaskService_delete_task(tasks', id, req[p].user_id).res
                         = Return(BoolV(FALSE))]_vars

C16_Witness ==
    \E p \in Procs :
        /\ Finished(p, {"delete_task"})
        /\ res[p] = Return(BoolV(TRUE))
        /\ req[p].task_id \notin DOMAIN tasks
        /\ tasks /= <<>>

\* C17: the statistics a user gets are total_tasks = the number of the
\* user's tasks, completed_tasks = the number of those that are completed,
\* pending_tasks = the difference, which is not negative, and
\* completion_percentage = completed_tasks / total_tasks * 100, or 0 when
\* the user has no task.
C17_StatisticsCount ==
    \A p \in Procs :
        Finished(p, {"get_task_statistics"}) =>
            LET st    == res[p].val
                owned == {t \in DOMAIN tasks : tasks[t].owner_id = req[p].user_id}
                pct   == st.completion_percentage
            IN  /\ st.total_tasks = Cardinality(owned)
                /\ st.completed_tasks
                     = Cardinality({t \in owned : tasks[t].completed})
                /\ st.pending_tasks = Cardinality({t \in owned : ~tasks[t].completed})
                /\ st.completed_tasks + st.pending_tasks = st.total_tasks
                /\ st.pending_tasks >= 0
                /\ pct.den > 0
                /\ IF st.total_tasks = 0 THEN pct.num = 0
                   ELSE pct.num * st.total_tasks = st.completed_tasks * 100 * pct.den

\* Two tasks, one of them completed: 50 percent.
C17_Witness ==
    \E p \in Procs :
        /\ Finished(p, {"get_task_statistics"})
        /\ res[p].val.total_tasks = 2
        /\ res[p].val.completed_tasks = 1
        /\ res[p].val.pending_tasks = 1
        /\ res[p].val.completion_percentage = [num |-> 50, den |-> 1]

\* C18 (as claimed): in every reachable state the owner of each task is the
\* user_id of the create_task call that inserted it, and no update_task,
\* whatever keywords it carries, changes the owner of a task.
C18_OwnerImmutable ==
    /\ [](\A t \in DOMAIN tasks : tasks[t].owner_id = creator[t])
    /\ [][\A p \in Procs :
            Writes(p, {"update_task"})
            => \A t \in DOMAIN tasks \cap DOMAIN tasks' :
                  tasks'[t].owner_id = tasks[t].owner_id]_vars

\* C19 (as claimed): in every reachable state, the states after a
\* delete_user included, the owner of every task is a user in the users
\* table.
C19_OwnerExists ==
    \A t \in DOMAIN tasks : tasks[t].owner_id \in DOMAIN users

\* The token is as create_access_token made it at clock reading issued.
Genuine(token, issued) ==
    \E n \in ValidUsernames, m \in Ttls : token = create_access_token(n, m, issued)

Fails(r, exc) == r.tag = "raise" /\ r.exc = exc

Issued(token) == \E k \in tokens : k.token = token

\* Login handed this token out to a user that has been deleted since.
HolderGone(token) == \E k \in tokens : k.token = token /\ k.gone

Registered(username) == \E i \in DOMAIN users : users[i].username = username

\* The bearer token of a request resolves at clock reading now.
Resolves(token, now) ==
    /\ token /= None
    /\ Issued(token)
    /\ now <= token.exp
    /\ Registered(token.sub)

TaskEndpoints == {"create_task", "complete_task", "delete_task"}

\* A request to a task endpoint is answered 401 in this step.
Rejected(p) ==
    /\ pc[p] = "idle" /\ pc'[p] = "done"
    /\ req'[p].op \in TaskEndpoints
    /\ res'[p] = Unauthenticated

\* C21 (as claimed): a request gets an identity exactly when its token is
\* present, was issued by login and not altered, is not expired and names
\* a registered user; a token issued to a user that has been deleted since
\* gets none; a task endpoint answered 401 changes no task.
C21_IdentityPerRequest ==
    /\ [](\A p \in Procs :
            Finished(p, {"get_current_user"}) =>
               /\ res[p] /= Unauthenticated <=> Resolves(req[p].token, req[p].now)
               /\ (req[p].token /= None /\ HolderGone(req[p].token))
                    => res[p] = Unauthenticated)
    /\ [][\A p \in Procs : Rejected(p) => tasks' = tasks]_vars

\* C21 (amended): a request gets an identity exactly when its token is
\* present, was issued by login and not altered, is not expired and names
\* a registered user, and the identity is the user row of that name; a
\* token issued to a user that has been deleted since gets none for as long
\* as no user of that name is registered; a task endpoint is answered 401
\* exactly when its token does not resolve, and then changes no task, no
\* user, and leaves no write pending.
C21_IdentityByUsername ==
    /\ [](\A p \in Procs :
            Finished(p, {"get_current_user"}) =>
               LET token == req[p].token
               IN  /\ res[p] /= Unauthenticated <=> Resolves(token, req[p].now)
                   /\ res[p] /= Unauthenticated
                        => /\ res[p].tag = "return"
                           /\ res[p].val.username = token.sub
                           /\ res[p].val.id \in DOMAIN users
                           /\ users[res[p].val.id] = res[p].val
                   /\ (token /= None /\ HolderGone(token) /\ ~Registered(token.sub))
                        => res[p] = Unauthenticated)
    /\ [][\A p \in Procs :
            /\ Rejected(p)
               => /\ ~Resolves(req'[p].token, req'[p].now)
                  /\ tasks' = tasks
                  /\ users' = users
            /\ (Calls(p, TaskEndpoints) /\ ~Rejected(p))
               => /\ req'[p].user_id \in DOMAIN users
                  /\ \E k \in tokens : k.token.sub = users[req'[p].user_id].username]_vars

C21_Witness ==
    \E p \in Procs :
        /\ Finished(p, {"get_current_user"})
        /\ res[p] = Unauthenticated
        /\ Issued(req[p].token)
        /\ HolderGone(req[p].token)
        /\ req[p].now <= req[p].token.exp
        /\ users /= <<>>
        /\ tasks /= <<>>

\* The outcome of a delete request is settled in this step.
Settles(p) == pc[p] \in {"delete", "commit"} /\ pc'[p] = "done"

\* C22 (as claimed): of two delete requests for the same task that both
\* passed the owner-scoped lookup, the one that returns True is the one
\* whose delete removed the task, and the other returns False: a request
\* returns True only in a step that takes the row out of the table, and no
\* request ends with an error.
C22_OneDeleteSucceeds ==
    [][\A p \in Procs :
          Settles(p)
          => /\ res'[p] \in {Return(BoolV(TRUE)), Return(BoolV(FALSE))}
             /\ res'[p] = Return(BoolV(TRUE))
                  <=> /\ req[p].task_id \in DOMAIN tasks
                      /\ tasks' = Drop(tasks, req[p].task_id)]_vars

Readers == {"get_task", "read_tasks", "get_task_statistics"}

\* Request p takes a step of a call of one of the methods in ops: the call
\* itself or its repository write.
Acts(p, ops) ==
    /\ pc[p] /= "done"
    /\ pc'[p] /= pc[p]
    /\ (IF pc[p] = "idle" THEN req'[p].op ELSE req[p].op) \in ops

\* Every row of the task table but the one with this id is as it was.
OthersKept(id) ==
    \A i \in DOMAIN tasks \ {id} : i \in DOMAIN tasks' /\ tasks'[i] = tasks[i]

\* C23: every step of a task operation leaves the users table as it is;
\* create_task adds at most one row and changes no row that was there;
\* update_task, complete_task, incomplete_task and delete_task add no row
\* and leave every row but the one with their task_id as it was, whoever
\* owns it; get_task, the list and the statistics leave the task table as
\* it is.
C23_OnlyTheNamedTask ==
    [][\A p \in Procs :
          /\ Acts(p, Readers \cup Mutators \cup {"create_task"}) => users' = users
          /\ Acts(p, Readers) => tasks' = tasks
          /\ Acts(p, {"create_task"})
             => /\ \A i \in DOMAIN tasks : i \in DOMAIN tasks' /\ tasks'[i] = tasks[i]
                /\ Cardinality(DOMAIN tasks' \ DOMAIN tasks) <= 1
          /\ Acts(p, Mutators)
             => LET id == IF pc[p] = "idle" THEN req'[p].task_id ELSE req[p].task_id
                IN  /\ DOMAIN tasks' \subseteq DOMAIN tasks
                    /\ OthersKept(id)]_vars

C23_Witness ==
    \E p \in Procs :
        /\ Finished(p, {"update_task"})
        /\ res[p].tag = "return"
        /\ res[p].val /= None
        /\ tasks[req[p].task_id].title = strip(req[p].update_data["title"])
        /\ \E t \in DOMAIN tasks :
              /\ t /= req[p].task_id
              /\ tasks[t].title /= tasks[req[p].task_id].title
              /\ tasks[t].owner_id /= req[p].user_id

====
